---- MODULE Spec2Model ----
(***************************************************************************)
(* Model of crawl_same_domain (kadai.py): a breadth-first crawl           *)
(* of one domain with a FIFO frontier, a seen-set, a page budget, an       *)
(* extension filter and a robots.txt gate.                                 *)
(*                                                                         *)
(* URL strings are sequences of one-character strings, so that rstrip,     *)
(* split, lower, startswith, endswith, urlparse and urljoin are computed   *)
(* on the characters as the Python code computes them.                     *)
(***************************************************************************)
EXTENDS Integers, Sequences, FiniteSets, TLC

VARIABLES
    pc,             \* "robots" (line 48), "loop" (line 63), "done" (line 142)
    start_url,      \* argument start_url
    max_pages,      \* argument max_pages
    urls_to_visit,  \* deque of URL strings (line 37)
    seen_urls,      \* set of URL strings (line 40)
    scraped_pages,  \* dict URL -> title (line 42)
    robot_parser,   \* RobotFileParser state (line 50)
    robots_result,  \* how robot_parser.read() ended (line 53)
    outcome,        \* how the latest loop iteration ended
    response,       \* status and Content-Type of the latest response
    log,            \* history: enq / pop / get / sleep events, in order
    fn_in,          \* input string of the pure-function specification
    fn_out          \* results of the pure functions applied to fn_in

vars == << pc, start_url, max_pages, urls_to_visit, seen_urls, scraped_pages,
           robot_parser, robots_result, outcome, response, log, fn_in,
           fn_out >>

crawlVars == << pc, start_url, max_pages, urls_to_visit, seen_urls,
                scraped_pages, robot_parser, robots_result, outcome, response,
                log >>

fnVars == << fn_in, fn_out >>

----------------------------------------------------------------------------
(* Bounds of the model *)

\* largest page budget (max_pages) a run is started with
MaxBudget == 3

\* longest input string of the pure-function specification
MaxLen == 4

----------------------------------------------------------------------------
(* Python str operations on character sequences *)

UPPER == <<"A","B","C","D","E","F","G","H","I","J","K","L","M","N","O","P","Q","R","S","T","U","V","W","X","Y","Z">>
LOWER == <<"a","b","c","d","e","f","g","h","i","j","k","l","m","n","o","p","q","r","s","t","u","v","w","x","y","z">>

Letters == { UPPER[i] : i \in DOMAIN UPPER } \cup { LOWER[i] : i \in DOMAIN LOWER }

Whitespace == { " ", "\t", "\n" }

\* the lower-case letter of each upper-case letter
LowerOf ==
    [ c \in { UPPER[i] : i \in DOMAIN UPPER } |->
        LOWER[CHOOSE i \in DOMAIN UPPER : UPPER[i] = c] ]

LowerChar(c) == IF c \in DOMAIN LowerOf THEN LowerOf[c] ELSE c

\* str.lower()
Lower(s) == [ i \in 1..Len(s) |-> LowerChar(s[i]) ]

\* str.startswith(p)
StartsWith(s, p) == Len(p) <= Len(s) /\ SubSeq(s, 1, Len(p)) = p

\* str.endswith(p)
EndsWith(s, p) == Len(p) <= Len(s) /\ SubSeq(s, Len(s) - Len(p) + 1, Len(s)) = p

\* p in s (substring test)
Contains(s, p) ==
    \E i \in 1..(Len(s) - Len(p) + 1) : SubSeq(s, i, i + Len(p) - 1) = p

\* number of characters before the first character of cs, Len(s) if none
SpanUntil(s, cs) ==
    LET hits == { i \in DOMAIN s : s[i] \in cs }
    IN  IF hits = {} THEN Len(s)
        ELSE (CHOOSE i \in hits : \A j \in hits : i <= j) - 1

\* s.split(c)[0]
SplitFirst(s, c) == SubSeq(s, 1, SpanUntil(s, {c}))

\* characters after position n
Drop(s, n) == SubSeq(s, n + 1, Len(s))

\* str.rstrip(cs): drop every trailing character that is in cs
RECURSIVE RStripSet(_, _)
RStripSet(s, cs) ==
    IF s # << >> /\ s[Len(s)] \in cs
    THEN RStripSet(SubSeq(s, 1, Len(s) - 1), cs)
    ELSE s

\* str.lstrip(cs)
RECURSIVE LStripSet(_, _)
LStripSet(s, cs) ==
    IF s # << >> /\ s[1] \in cs THEN LStripSet(Tail(s), cs) ELSE s

\* s.rstrip('/')
RStripSlash(s) == RStripSet(s, {"/"})

\* s.strip()
Strip(s) == RStripSet(LStripSet(s, Whitespace), Whitespace)

----------------------------------------------------------------------------
(* urllib.parse.urlparse / urljoin, as far as the crawl uses them *)

\* n characters precede the first ':' of s: the position of the ':' that
\* ends the scheme, 0 when they are not a scheme
SchemeEndAt(s, n) ==
    IF n >= 1 /\ n < Len(s) /\ \A i \in 1..n : s[i] \in Letters
    THEN n + 1 ELSE 0

SchemeEnd(s) == SchemeEndAt(s, SpanUntil(s, {":"}))

\* the netloc and what follows it, for the string after "scheme:"
SplitNetloc(rest, slash2, n) ==
    [ after      |-> rest,
      has_netloc |-> slash2,
      netloc     |-> IF slash2 THEN SubSeq(rest, 3, 2 + n) ELSE << >>,
      tail       |-> IF slash2 THEN Drop(rest, 2 + n) ELSE rest ]

AfterSchemeParse(rest) ==
    SplitNetloc(rest, StartsWith(rest, <<"/","/">>),
                SpanUntil(Drop(rest, 2), {"/", "?", "#"}))

\* urlparse(s) with the scheme ending at position e
UrlParseAt(s, e) ==
    [ scheme |-> IF e = 0 THEN << >> ELSE Lower(SubSeq(s, 1, e - 1)) ]
        @@ AfterSchemeParse(Drop(s, e))

\* urlparse(s): the scheme (lower-cased by urlsplit), the netloc, and the
\* tail (path, query and fragment)
UrlParse(s) == UrlParseAt(s, SchemeEnd(s))

\* urlparse(s).scheme
Scheme(s) == UrlParse(s).scheme

\* urlparse(s).netloc
Netloc(s) == UrlParse(s).netloc

\* path, query and fragment: what follows the netloc
AfterNetloc(s) == UrlParse(s).tail

\* the path of a tail: up to the query or the fragment
PathOf(tail) == SubSeq(tail, 1, SpanUntil(tail, {"?", "#"}))

\* urlparse(s).path
Path(s) == PathOf(AfterNetloc(s))

HasChar(s, c) == \E i \in DOMAIN s : s[i] = c

\* urlsplit raises ValueError("Invalid IPv6 URL") on an unbalanced bracket
\* in the netloc
BadNetloc(netloc) == HasChar(netloc, "[") # HasChar(netloc, "]")

RaisesValueError(s) == BadNetloc(Netloc(s))

USES_RELATIVE == { <<"h","t","t","p">>, <<"h","t","t","p","s">> }

\* the directory of a path: the path up to its last '/'
DirOf(path) == RStripSet(path, Letters \cup {"."})

\* urljoin on the parsed base b and the parsed url u; u.after is the url
\* without its scheme
JoinParsed(base, url, b, u) ==
    IF url = << >> THEN base
    ELSE IF u.scheme # << >> /\ (u.scheme # b.scheme \/ u.scheme \notin USES_RELATIVE)
         THEN url
    ELSE IF u.netloc # << >>
         THEN b.scheme \o <<":">> \o u.after
    ELSE IF u.after = << >> THEN SplitFirst(base, "#")
    ELSE IF u.after[1] = "#" THEN SplitFirst(base, "#") \o u.after
    ELSE IF u.after[1] = "?"
         THEN SplitFirst(SplitFirst(base, "#"), "?") \o u.after
    ELSE IF u.after[1] = "/"
         THEN b.scheme \o <<":","/","/">> \o b.netloc \o u.after
    ELSE b.scheme \o <<":","/","/">> \o b.netloc
             \o (IF DirOf(PathOf(b.tail)) = << >> THEN <<"/">> ELSE DirOf(PathOf(b.tail)))
             \o u.after

\* urljoin(base, url) for a base with a scheme and a netloc, and a url
\* without "." or ".." segments
UrlJoin(base, url) == JoinParsed(base, url, UrlParse(base), UrlParse(url))

----------------------------------------------------------------------------
(* Inputs: seeds, page bodies, response headers, robots.txt rules *)

SeedSlash == <<"h","t","t","p","s",":","/","/","x","/">>
SeedFrag == <<"h","t","t","p","s",":","/","/","x","/","a","#","f">>
SeedJs == <<"h","t","t","p","s",":","/","/","x",".","j","s","/">>

Seeds == { SeedSlash, SeedFrag, SeedJs }

HrefA == <<"/","a">>
HrefASlash == <<"/","a","/">>
HrefTop == <<"#","f">>
HrefB == <<"h","t","t","p","s",":","/","/","x","/","b">>
HrefHttpB == <<"h","t","t","p",":","/","/","x","/","b">>
HrefSub == <<"h","t","t","p","s",":","/","/","s",".","x","/","c">>
HrefMail == <<"m","a","i","l","t","o",":","m">>
HrefPdf == <<"/","d",".","P","D","F">>
HrefQ == <<"/","e","?",".","j","s">>
HrefJsQ == <<"/","g",".","j","s","?","v">>
HrefPriv == <<"/","p","/","h">>
HrefBad == <<"/","/","[">>
HrefSp == <<" ","/","b"," ">>
HrefFtp == <<"f","t","p",":","/","/","x","/","f">>

\* line 107: the title recorded for a page without a title element
NoTitle == "(no title)"

\* what the HTML parser finds in a page: the title and the hrefs in order
Bodies ==
    { [title |-> "Home",  hrefs |-> << HrefA, HrefMail >>],
      [title |-> "Two",   hrefs |-> << HrefASlash, HrefB, HrefTop >>],
      [title |-> "Three", hrefs |-> << HrefHttpB, HrefSub, HrefPdf, HrefFtp >>],
      [title |-> "Four",  hrefs |-> << HrefQ, HrefJsQ, HrefPriv >>],
      [title |-> "Five",  hrefs |-> << HrefSp, HrefBad, HrefA >>],
      [title |-> NoTitle, hrefs |-> << >>] }

CtHtml == <<"T","e","x","t","/","H","T","M","L",";","u","t","f">>
CtPdf == <<"a","p","p","/","p","d","f">>

\* values of response.headers.get('Content-Type', ''); << >> is the default
ContentTypes == { CtHtml, CtPdf, << >> }

PrivPrefix == <<"/","p">>

\* Disallow prefixes a parsed robots.txt may hold for this user agent
RuleSets == { {}, { PrivPrefix } }

RobotsResults == { "parsed", "http403", "http404", "http500", "error" }

----------------------------------------------------------------------------
(* The pieces of crawl_same_domain *)

EXCLUDED_EXTENSIONS ==
    { <<".","p","d","f">>,
      <<".","j","p","g">>,
      <<".","j","p","e","g">>,
      <<".","p","n","g">>,
      <<".","g","i","f">>,
      <<".","s","v","g">>,
      <<".","b","m","p">>,
      <<".","w","e","b","p">>,
      <<".","t","i","f","f">>,
      <<".","c","s","s">>,
      <<".","j","s">>,
      <<".","x","m","l">>,
      <<".","z","i","p">>,
      <<".","m","p","4">>,
      <<".","m","o","v">>,
      <<".","a","v","i">>,
      <<".","d","o","c">>,
      <<".","d","o","c","x">>,
      <<".","x","l","s">>,
      <<".","x","l","s","x">>,
      <<".","p","p","t">>,
      <<".","p","p","t","x">> }

\* line 31
base_domain == Netloc(start_url)

\* line 32
base_scheme == Scheme(start_url)

\* line 34: the normalization of the seed
NormalizeSeed(url) == RStripSlash(url)

\* line 34
normalized_start_url == NormalizeSeed(start_url)

\* a while condition that lets the loop run with the budget just reached
LoopConditionInclusive(queue, pages, budget) ==
    queue # << >> /\ Cardinality(DOMAIN pages) <= budget

\* a while condition that forgets the budget
LoopConditionNoBudget(queue, pages, budget) == queue # << >>

\* line 63: the while condition
LoopCondition(queue, pages, budget) ==
    queue # << >> /\ Cardinality(DOMAIN pages) < budget

\* pop() instead of popleft(): the newest URL first
PopRight(queue) ==
    [ url |-> queue[Len(queue)], rest |-> SubSeq(queue, 1, Len(queue) - 1) ]

\* urls_to_visit[0] instead of popleft(): the URL stays in the deque
PopLeftKeep(queue) == [ url |-> Head(queue), rest |-> queue ]

\* line 64: popleft()
PopLeft(queue) == [ url |-> Head(queue), rest |-> Tail(queue) ]

\* line 67: the test is on the whole lower-cased URL string
EndsWithAny(lowered, exts) == \E ext \in exts : EndsWith(lowered, ext)

\* an extension test that does not lower-case the URL
IsExcludedCaseSensitive(url) == EndsWithAny(url, EXCLUDED_EXTENSIONS)

\* line 67
IsExcluded(url) == EndsWithAny(Lower(url), EXCLUDED_EXTENSIONS)

\* RobotFileParser() as constructed at line 50
NewRobotParser ==
    [ disallow_all |-> FALSE, allow_all |-> FALSE, last_checked |-> 0,
      disallow |-> {} ]

\* RobotFileParser.read() (line 53), by how urlopen and parse end:
\* HTTP 401/403 sets disallow_all, another 4xx sets allow_all, another
\* HTTPError sets nothing, a parsed file sets last_checked and the rules,
\* and any other exception leaves the parser as constructed (and is caught
\* at line 55).
RobotsRead(rp, result, rules) ==
    CASE result = "parsed"  -> [ rp EXCEPT !.last_checked = 1, !.disallow = rules ]
      [] result = "http403" -> [ rp EXCEPT !.disallow_all = TRUE ]
      [] result = "http404" -> [ rp EXCEPT !.allow_all = TRUE ]
      [] OTHER              -> rp

\* the string can_fetch matches the rules against: path, query and fragment
TargetOf(tail) == IF tail = << >> THEN <<"/">> ELSE tail

RobotsTarget(url) == TargetOf(AfterNetloc(url))

\* the first rule that matches decides; the rules here are Disallow lines
Allowance(rules, target) == \A p \in rules : ~StartsWith(target, p)

\* RobotFileParser.can_fetch (line 71)
CanFetch(rp, url) ==
    IF rp.disallow_all THEN FALSE
    ELSE IF rp.allow_all THEN TRUE
    ELSE IF rp.last_checked = 0 THEN FALSE
    ELSE Allowance(rp.disallow, RobotsTarget(url))

\* a Content-Type test that takes a missing header for HTML
IsHtmlOrMissing(content_type) ==
    \/ content_type = << >>
    \/ Contains(Lower(content_type), <<"t","e","x","t","/","h","t","m","l">>)

\* line 88
IsHtml(content_type) ==
    Contains(Lower(content_type), <<"t","e","x","t","/","h","t","m","l">>)

\* line 116
IsNonNavigable(href) ==
    \/ StartsWith(href, <<"t","e","l",":">>)
    \/ StartsWith(href, <<"m","a","i","l","t","o",":">>)
    \/ StartsWith(href, <<"j","a","v","a","s","c","r","i","p","t",":">>)

\* a domain test that accepts any host ending with the base domain
SameDomainSuffix(parsed_full_url, domain) ==
    /\ parsed_full_url.scheme \in { <<"h","t","t","p">>, <<"h","t","t","p","s">> }
    /\ EndsWith(parsed_full_url.netloc, domain)

\* a domain test that accepts any scheme
SameDomainAnyScheme(parsed_full_url, domain) ==
    parsed_full_url.netloc = domain

\* line 124, on the result of urlparse(full_url) (line 121)
SameDomainParsed(parsed_full_url, domain) ==
    /\ parsed_full_url.scheme \in { <<"h","t","t","p">>, <<"h","t","t","p","s">> }
    /\ parsed_full_url.netloc = domain

\* lines 121-124
IsSameDomain(full_url, domain) == SameDomainParsed(UrlParse(full_url), domain)

\* a normalization that keeps the trailing slash
NormalizeUrlKeepSlash(full_url) == full_url

\* line 127
NormalizeUrl(full_url) == RStripSlash(full_url)

\* lines 120 and 127: the normalization of a resolved link
NormalizeLink(joined) == NormalizeUrl(SplitFirst(joined, "#"))

Event(op, url, n) == [ op |-> op, url |-> url, n |-> n ]

\* the depth at which url was enqueued (the n of its enq event)
DepthOf(lg, url) ==
    lg[CHOOSE i \in DOMAIN lg : lg[i].op = "enq" /\ lg[i].url = url].n

\* an enqueue that does not consult seen_urls
EnqueueNoDedup(st, url, depth) ==
    [ st EXCEPT !.seen  = st.seen \cup {url},
                !.queue = Append(st.queue, url),
                !.log   = Append(st.log, Event("enq", url, depth)) ]

\* an enqueue that does not add the URL to seen_urls
EnqueueNoMark(st, url, depth) ==
    IF url \in st.seen THEN st
    ELSE [ st EXCEPT !.queue = Append(st.queue, url),
                     !.log   = Append(st.log, Event("enq", url, depth)) ]

\* lines 129-131: enqueue a normalized URL unless it was seen
Enqueue(st, url, depth) ==
    IF url \in st.seen THEN st
    ELSE [ st EXCEPT !.seen  = st.seen \cup {url},
                     !.queue = Append(st.queue, url),
                     !.log   = Append(st.log, Event("enq", url, depth)) ]

\* lines 121-131 for one full_url
HandleFullUrl(full_url, domain, depth, st) ==
    IF IsSameDomain(full_url, domain)
    THEN Enqueue(st, NormalizeUrl(full_url), depth)
    ELSE st

\* lines 120-131 for the result of urljoin; st.raised is set when urljoin
\* or urlparse raises
HandleJoined(joined, domain, depth, st) ==
    IF RaisesValueError(joined) THEN [ st EXCEPT !.raised = TRUE ]
    ELSE HandleFullUrl(SplitFirst(joined, "#"), domain, depth, st)

\* lines 113-131 for one stripped href
HandleStripped(href, current_url, domain, depth, st) ==
    IF IsNonNavigable(href) THEN st
    ELSE HandleJoined(UrlJoin(current_url, href), domain, depth, st)

\* lines 113-131: the loop body for one anchor
HandleHref(raw, current_url, domain, depth, st) ==
    HandleStripped(Strip(raw), current_url, domain, depth, st)

\* line 112: the loop over the anchors, left when an href raises (line 135)
RECURSIVE ExtractLinks(_, _, _, _, _)
ExtractLinks(hrefs, current_url, domain, depth, st) ==
    IF hrefs = << >> \/ st.raised THEN st
    ELSE ExtractLinks(Tail(hrefs), current_url, domain, depth,
                      HandleHref(Head(hrefs), current_url, domain, depth, st))

\* line 109
Record(pages, url, title) ==
    [ u \in DOMAIN pages \cup {url} |-> IF u = url THEN title ELSE pages[u] ]

----------------------------------------------------------------------------
(* The state machine of crawl_same_domain *)

\* response.status_code values the transport may return
StatusCodes == { 200, 404, 503 }

NoResponse == [ status |-> 0, content_type |-> << >> ]

\* lines 30-42: the state when the robots.txt set-up begins
Init ==
    /\ start_url \in Seeds
    /\ max_pages \in 0..MaxBudget
    /\ pc = "robots"
    /\ urls_to_visit = << normalized_start_url >>
    /\ seen_urls = { normalized_start_url }
    /\ scraped_pages = << >>
    /\ robot_parser = NewRobotParser
    /\ robots_result = "none"
    /\ outcome = "none"
    /\ response = NoResponse
    /\ log = << Event("enq", normalized_start_url, 0) >>
    /\ fn_in = << >>
    /\ fn_out = [ op |-> "none" ]

\* lines 48-56: read robots.txt; an exception is caught and only reported
ReadRobots ==
    /\ pc = "robots"
    /\ \E result \in RobotsResults, rules \in RuleSets :
          /\ robot_parser' = RobotsRead(robot_parser, result, rules)
          /\ robots_result' = result
    /\ pc' = "loop"
    /\ UNCHANGED << start_url, max_pages, urls_to_visit, seen_urls,
                    scraped_pages, outcome, response, log, fnVars >>

\* line 63 holds: an iteration starts
Running ==
    /\ pc = "loop"
    /\ LoopCondition(urls_to_visit, scraped_pages, max_pages)

\* line 64
current_url == PopLeft(urls_to_visit).url

\* the log once current_url is popped; n is the number of pages recorded
\* at that moment
Popped == Append(log, Event("pop", current_url, Cardinality(DOMAIN scraped_pages)))

\* the log once session.get(current_url) is called (line 79); n is the
\* number of pages recorded at that moment
Got == Append(Popped, Event("get", current_url, Cardinality(DOMAIN scraped_pages)))

\* line 139: time.sleep(0.5)
Slept(lg) == Append(lg, Event("sleep", current_url, 0))

\* lines 67-68: continue on an excluded extension
SkipExtension ==
    /\ Running
    /\ IsExcluded(current_url)
    /\ urls_to_visit' = PopLeft(urls_to_visit).rest
    /\ log' = Popped
    /\ outcome' = "SkippedExtension"
    /\ response' = NoResponse
    /\ UNCHANGED << pc, start_url, max_pages, seen_urls, scraped_pages,
                    robot_parser, robots_result, fnVars >>

\* lines 71-73: continue when robots.txt disallows
SkipRobots ==
    /\ Running
    /\ ~IsExcluded(current_url)
    /\ ~CanFetch(robot_parser, current_url)
    /\ urls_to_visit' = PopLeft(urls_to_visit).rest
    /\ log' = Popped
    /\ outcome' = "SkippedRobots"
    /\ response' = NoResponse
    /\ UNCHANGED << pc, start_url, max_pages, seen_urls, scraped_pages,
                    robot_parser, robots_result, fnVars >>

\* a fetch that does not ask robots.txt
FetchingNoGate ==
    /\ Running
    /\ ~IsExcluded(current_url)

\* lines 67-79: both checks passed, session.get is called
Fetching ==
    /\ Running
    /\ ~IsExcluded(current_url)
    /\ CanFetch(robot_parser, current_url)

\* lines 82-84: continue on a status other than 200 (line 139 is skipped);
\* the Content-Type of such a response is not read
SkipStatus ==
    /\ Fetching
    /\ \E status \in StatusCodes :
          /\ status # 200
          /\ response' = [ status |-> status, content_type |-> << >> ]
    /\ urls_to_visit' = PopLeft(urls_to_visit).rest
    /\ log' = Got
    /\ outcome' = "SkippedStatus"
    /\ UNCHANGED << pc, start_url, max_pages, seen_urls, scraped_pages,
                    robot_parser, robots_result, fnVars >>

\* lines 87-90: continue on a Content-Type without text/html (line 139 is
\* skipped)
SkipContentType ==
    /\ Fetching
    /\ \E ct \in ContentTypes :
          /\ ~IsHtml(ct)
          /\ response' = [ status |-> 200, content_type |-> ct ]
    /\ urls_to_visit' = PopLeft(urls_to_visit).rest
    /\ log' = Got
    /\ outcome' = "SkippedContentType"
    /\ UNCHANGED << pc, start_url, max_pages, seen_urls, scraped_pages,
                    robot_parser, robots_result, fnVars >>

\* lines 79, 133-134, 139: session.get raises a RequestException
FailTransport ==
    /\ Fetching
    /\ urls_to_visit' = PopLeft(urls_to_visit).rest
    /\ log' = Slept(Got)
    /\ outcome' = "FailedTransport"
    /\ response' = NoResponse
    /\ UNCHANGED << pc, start_url, max_pages, seen_urls, scraped_pages,
                    robot_parser, robots_result, fnVars >>

\* a parse failure that leaves the function instead of being caught
FailOtherPropagates ==
    /\ Fetching
    /\ \E ct \in ContentTypes :
          /\ IsHtml(ct)
          /\ response' = [ status |-> 200, content_type |-> ct ]
    /\ urls_to_visit' = PopLeft(urls_to_visit).rest
    /\ log' = Got
    /\ outcome' = "FailedOther"
    /\ pc' = "done"
    /\ UNCHANGED << start_url, max_pages, seen_urls, scraped_pages,
                    robot_parser, robots_result, fnVars >>

\* lines 97-107, 135-136, 139: decoding, parsing or the title raises
FailOther ==
    /\ Fetching
    /\ \E ct \in ContentTypes :
          /\ IsHtml(ct)
          /\ response' = [ status |-> 200, content_type |-> ct ]
    /\ urls_to_visit' = PopLeft(urls_to_visit).rest
    /\ log' = Slept(Got)
    /\ outcome' = "FailedOther"
    /\ UNCHANGED << pc, start_url, max_pages, seen_urls, scraped_pages,
                    robot_parser, robots_result, fnVars >>

\* lines 109-131 applied to a parsed page
Extracted(body) ==
    ExtractLinks(body.hrefs, current_url, base_domain,
                 DepthOf(log, current_url) + 1,
                 [ queue  |-> PopLeft(urls_to_visit).rest,
                   seen   |-> seen_urls,
                   log    |-> Append(Got, Event("put", current_url, 0)),
                   raised |-> FALSE ])

\* lines 109-139 on a page whose link loop ended in state st, having
\* raised or not
RecordPage(ct, body, st, raised) ==
    /\ st.raised = raised
    /\ response' = [ status |-> 200, content_type |-> ct ]
    /\ scraped_pages' = Record(scraped_pages, current_url, body.title)
    /\ urls_to_visit' = st.queue
    /\ seen_urls' = st.seen
    /\ log' = Slept(st.log)
    /\ outcome' = IF st.raised THEN "FailedLinks" ELSE "Fetched"
    /\ UNCHANGED << pc, start_url, max_pages, robot_parser, robots_result,
                    fnVars >>

\* lines 92-131, 139: the page is recorded and all its links are handled
Fetched ==
    /\ Fetching
    /\ \E ct \in ContentTypes, body \in Bodies :
          /\ IsHtml(ct)
          /\ RecordPage(ct, body, Extracted(body), FALSE)

\* lines 109-131, 135-136, 139: the page is recorded, then urljoin raises
\* on one of its hrefs; the links before it stay enqueued
FailLinks ==
    /\ Fetching
    /\ \E ct \in ContentTypes, body \in Bodies :
          /\ IsHtml(ct)
          /\ RecordPage(ct, body, Extracted(body), TRUE)

\* lines 63, 141-142: the while condition fails and the dict is returned
Return ==
    /\ pc = "loop"
    /\ ~LoopCondition(urls_to_visit, scraped_pages, max_pages)
    /\ pc' = "done"
    /\ UNCHANGED << start_url, max_pages, urls_to_visit, seen_urls,
                    scraped_pages, robot_parser, robots_result, outcome,
                    response, log, fnVars >>

Next ==
    \/ ReadRobots
    \/ SkipExtension
    \/ SkipRobots
    \/ SkipStatus
    \/ SkipContentType
    \/ FailTransport
    \/ FailOther
    \/ Fetched
    \/ FailLinks
    \/ Return

Spec == Init /\ [][Next]_vars

----------------------------------------------------------------------------
(* Properties of the crawl *)

IsPop(e) == e.op = "pop"
IsEnq(e) == e.op = "enq"

\* the events of one kind, in order
Pops == SelectSeq(log, IsPop)
Enqs == SelectSeq(log, IsEnq)

Urls(events) == [ i \in DOMAIN events |-> events[i].url ]

\* the URLs for which session.get was called and no page was recorded
NotRecorded ==
    { log[i].url : i \in { j \in DOMAIN log : log[j].op = "get" } }
        \ DOMAIN scraped_pages

\* C1: every URL is dequeued at most once, so it is passed to session.get
\* at most once (no retry, no revisit) and written to scraped_pages at most
\* once.
C1_AtMostOnce ==
    \A i, j \in DOMAIN log :
        ( /\ log[i].op \in { "pop", "get", "put" }
          /\ log[i].op = log[j].op
          /\ log[i].url = log[j].url ) => i = j

\* two recorded pages that link to the same URL (/a and /a/), and a fetch
\* that failed or was skipped, in a finished run
C1_Witness ==
    /\ pc = "done"
    /\ \E u, v \in DOMAIN scraped_pages :
          scraped_pages[u] = "Home" /\ scraped_pages[v] = "Two"
    /\ NotRecorded # {}

\* C2: the number of recorded pages never exceeds max_pages.
C2_WithinBudget == Cardinality(DOMAIN scraped_pages) <= max_pages

\* the budget is met exactly while URLs are still waiting
C2_Witness ==
    /\ max_pages = MaxBudget
    /\ Cardinality(DOMAIN scraped_pages) = max_pages
    /\ urls_to_visit # << >>

\* C3: no URL is popped and no GET is issued once the number of recorded
\* pages has reached max_pages; with max_pages = 0 nothing is fetched and
\* nothing is recorded.
C3_NoFetchAtBudget ==
    /\ \A i \in DOMAIN log :
          log[i].op \in { "pop", "get" } => log[i].n < max_pages
    /\ max_pages = 0 => scraped_pages = << >> /\ Len(log) = 1

\* a run with max_pages = 0 that returned with the seed still waiting
C3_Witness ==
    /\ pc = "done"
    /\ max_pages = 0
    /\ urls_to_visit = << normalized_start_url >>
    /\ scraped_pages = << >>

\* C4: every URL ever placed in the frontier has scheme http or https and
\* the host of the seed.
C4_DomainContainment ==
    \A i \in DOMAIN Enqs :
        /\ Scheme(Enqs[i].url) \in { <<"h","t","t","p">>, <<"h","t","t","p","s">> }
        /\ Netloc(Enqs[i].url) = Netloc(start_url)

\* a recorded page that links to a sub-domain of the seed's host and to the
\* seed's host, of which only the second was enqueued
C4_Witness ==
    /\ \E u \in DOMAIN scraped_pages : scraped_pages[u] = "Three"
    /\ \E i \in DOMAIN Enqs : Enqs[i].url = HrefHttpB
    /\ \A i \in DOMAIN Enqs : Enqs[i].url # HrefSub

\* C5: URLs are dequeued in the order in which they were enqueued, and so
\* in non-decreasing breadth-first depth.
C5_Fifo ==
    /\ Len(Pops) <= Len(Enqs)
    /\ Urls(Pops) = SubSeq(Urls(Enqs), 1, Len(Pops))
    /\ \A i, j \in DOMAIN Pops :
          i < j => DepthOf(log, Pops[i].url) <= DepthOf(log, Pops[j].url)

\* a URL of depth 2 was dequeued after two URLs of depth 1
C5_Witness ==
    /\ \E i \in DOMAIN Pops : DepthOf(log, Pops[i].url) = 2
    /\ Cardinality({ i \in DOMAIN Pops : DepthOf(log, Pops[i].url) = 1 }) >= 2

\* C6: a URL that robots.txt disallows is never passed to session.get and
\* never recorded.
C6_RobotsDenied ==
    /\ \A i \in DOMAIN log :
          log[i].op \in { "get", "put" } => CanFetch(robot_parser, log[i].url)
    /\ \A u \in DOMAIN scraped_pages : CanFetch(robot_parser, u)

\* a disallowed URL that a recorded page linked to was enqueued and dequeued
C6_Witness ==
    /\ robots_result = "parsed"
    /\ \E i \in DOMAIN Pops :
          /\ ~CanFetch(robot_parser, Pops[i].url)
          /\ DepthOf(log, Pops[i].url) >= 1

\* C7: when reading robots.txt failed, every URL is allowed.
C7_PermissiveOnFailure ==
    (pc # "robots" /\ robots_result = "error")
        => \A u \in seen_urls : CanFetch(robot_parser, u)

\* C8: the run ends only with the frontier empty or the budget reached,
\* whatever the outcome of any page.
C8_StopsOnlyOnExhaustion ==
    pc = "done" =>
        \/ urls_to_visit = << >>
        \/ Cardinality(DOMAIN scraped_pages) >= max_pages

\* a URL was dequeued after a fetch that raised
C8_Witness ==
    /\ pc = "done"
    /\ \E i, j \in DOMAIN log :
          /\ i < j
          /\ log[i].op = "sleep"
          /\ log[i].url \in NotRecorded
          /\ log[j].op = "pop"

\* the outcomes of an iteration that ends at a continue or in the handler
\* of an exception raised before line 109
SkippedOrFailed ==
    { "SkippedExtension", "SkippedRobots", "SkippedStatus",
      "SkippedContentType", "FailedTransport", "FailedOther" }

\* C11: a step adds a key to scraped_pages only for the URL it dequeued,
\* which passed the extension filter and robots.txt, for which session.get
\* was called in this step and returned status 200 with a Content-Type
\* containing text/html; earlier records are kept as they are; and a step
\* whose fetch was skipped or failed leaves the URL without a record.
C11_RecordOnlyFetchedHtml ==
    [][ /\ scraped_pages' # scraped_pages =>
              /\ DOMAIN scraped_pages' = DOMAIN scraped_pages \cup { current_url }
              /\ \A u \in DOMAIN scraped_pages : scraped_pages'[u] = scraped_pages[u]
              /\ ~IsExcluded(current_url)
              /\ CanFetch(robot_parser, current_url)
              /\ Len(log') >= Len(log) + 2
              /\ log'[Len(log) + 2].op = "get"
              /\ log'[Len(log) + 2].url = current_url
              /\ response'.status = 200
              /\ Contains(Lower(response'.content_type),
                          <<"t","e","x","t","/","h","t","m","l">>)
        /\ (log' # log /\ outcome' \in SkippedOrFailed) =>
              /\ scraped_pages' = scraped_pages
              /\ current_url \notin DOMAIN scraped_pages'
      ]_vars

\* a page was recorded from a response with the header "Text/HTML;utf", and
\* the fetch of another URL was skipped for its Content-Type
C11_Witness ==
    /\ outcome = "SkippedContentType"
    /\ response.content_type = CtPdf
    /\ scraped_pages # << >>
    /\ log[Len(log)].op = "get"
    /\ log[Len(log)].url \notin DOMAIN scraped_pages

\* C12: an iteration that ends in a status skip, a content-type skip, a
\* transport failure or any other failure leaves scraped_pages and seen_urls
\* as they were and takes only the dequeued URL from urls_to_visit.
C12_NoEffectUnlessFetched ==
    [][ ( /\ log' # log
          /\ outcome' \in { "SkippedStatus", "SkippedContentType",
                            "FailedTransport", "FailedOther", "FailedLinks" } )
        => /\ scraped_pages' = scraped_pages
           /\ seen_urls' = seen_urls
           /\ urls_to_visit' = Tail(urls_to_visit)
      ]_vars

\* what holds of C12: the same for every such outcome except an exception
\* raised in the link loop, after line 109
C12_ExceptLinkFailure ==
    [][ ( /\ log' # log
          /\ outcome' \in { "SkippedStatus", "SkippedContentType",
                            "FailedTransport", "FailedOther" } )
        => /\ scraped_pages' = scraped_pages
           /\ seen_urls' = seen_urls
           /\ urls_to_visit' = Tail(urls_to_visit)
      ]_vars

\* the page that was parsed when title was recorded
BodyOf(title) == CHOOSE b \in Bodies : b.title = title

\* the normalized target of a resolved link with its fragment removed, or
\* << >> when the link is not in the domain of the seed; parsed is
\* urlparse(full_url)
LinkTargetOfParsed(full_url, parsed) ==
    IF /\ parsed.scheme \in { <<"h","t","t","p">>, <<"h","t","t","p","s">> }
       /\ parsed.netloc = base_domain
    THEN RStripSlash(full_url)
    ELSE << >>

LinkTargetOfFull(full_url) == LinkTargetOfParsed(full_url, UrlParse(full_url))

\* the same for the result of urljoin; << >> when urljoin or urlparse
\* raises
LinkTargetOfJoined(joined) ==
    IF RaisesValueError(joined) THEN << >>
    ELSE LinkTargetOfFull(SplitFirst(joined, "#"))

\* the same for a stripped href found on the page url; << >> for tel:,
\* mailto: and javascript:
LinkTargetOfHref(url, href) ==
    IF \/ StartsWith(href, <<"t","e","l",":">>)
       \/ StartsWith(href, <<"m","a","i","l","t","o",":">>)
       \/ StartsWith(href, <<"j","a","v","a","s","c","r","i","p","t",":">>)
    THEN << >>
    ELSE LinkTargetOfJoined(UrlJoin(url, href))

LinkTargets(url, hrefs) ==
    [ i \in DOMAIN hrefs |-> LinkTargetOfHref(url, Strip(hrefs[i])) ]

\* the positions of the targets that are not in seen, at their first
\* occurrence
FirstNew(targets, seen) ==
    { i \in DOMAIN targets :
        /\ targets[i] # << >>
        /\ targets[i] \notin seen
        /\ \A j \in 1..(i - 1) : targets[j] # targets[i] }

\* the targets at the positions idx, in the order of the page
TargetsAt(targets, idx) ==
    [ k \in 1..Cardinality(idx) |->
        targets[CHOOSE i \in idx : Cardinality({ j \in idx : j < i }) = k - 1] ]

NewTargets(targets, seen) == TargetsAt(targets, FirstNew(targets, seen))

Range(f) == { f[i] : i \in DOMAIN f }

\* C13: after a page was recorded and all its links were handled,
\* urls_to_visit is the old deque without the dequeued URL, followed by the
\* normalized in-domain link targets of the page that were not in seen_urls,
\* each once, in the order of their first occurrence; seen_urls grows by
\* exactly these URLs; tel:, mailto:, javascript: and out-of-domain links
\* add nothing.
C13_LinksAppended ==
    [][ (log' # log /\ outcome' = "Fetched") =>
          /\ urls_to_visit' =
                Tail(urls_to_visit)
                  \o NewTargets(LinkTargets(current_url,
                                   BodyOf(scraped_pages'[current_url]).hrefs),
                                seen_urls)
          /\ seen_urls' =
                seen_urls
                  \cup Range(SubSeq(urls_to_visit', Len(urls_to_visit),
                                    Len(urls_to_visit')))
      ]_vars

\* the page "Two" (links /a/, https://x/b and #f) was recorded for
\* https://x/a, found on the page "Home": only https://x/b was enqueued
C13_Witness ==
    /\ outcome = "Fetched"
    /\ Len(log) >= 3
    /\ log[Len(log) - 2].op = "put"
    /\ scraped_pages[log[Len(log) - 2].url] = "Two"
    /\ log[Len(log) - 1] = Event("enq", HrefB, 2)
    /\ urls_to_visit # << >>
    /\ urls_to_visit[Len(urls_to_visit)] = HrefB
    /\ \E u \in DOMAIN scraped_pages : scraped_pages[u] = "Home"

\* C14: between any two consecutive calls of session.get there is exactly
\* one time.sleep, whatever the first call returned or raised.
C14_DelayBetweenGets ==
    \A i, j \in DOMAIN log :
        ( /\ i < j
          /\ log[i].op = "get"
          /\ log[j].op = "get"
          /\ \A k \in (i + 1)..(j - 1) : log[k].op # "get" )
        => Cardinality({ k \in (i + 1)..(j - 1) : log[k].op = "sleep" }) = 1

\* what holds of C14: an iteration that records a page or ends in an
\* exception handler ends with time.sleep
C14_DelayUnlessSkipped ==
    [][ ( /\ log' # log
          /\ outcome' \in { "Fetched", "FailedLinks", "FailedTransport",
                            "FailedOther" } )
        => log'[Len(log')].op = "sleep"
      ]_vars

\* s has no fragment and no trailing slash
IsNormalized(s) ==
    /\ ~HasChar(s, "#")
    /\ s # << >> => s[Len(s)] # "/"

\* C15: every member of seen_urls, the seed included, has no fragment and
\* no trailing slash, so no link that differs from the seed only by a
\* fragment or a trailing slash is enqueued.
C15_SeenNormalized ==
    /\ \A u \in seen_urls : IsNormalized(u)
    /\ \A i \in DOMAIN Enqs :
          i > 1 => NormalizeLink(Enqs[i].url) # NormalizeLink(start_url)

\* what holds of C15: every member of seen_urls but the seed is normalized,
\* and the seed has no trailing slash
C15_ExceptSeedFragment ==
    /\ \A u \in seen_urls \ { normalized_start_url } : IsNormalized(u)
    /\ normalized_start_url = RStripSlash(start_url)

\* C16: every URL in urls_to_visit and every key of scraped_pages is in
\* seen_urls, urls_to_visit holds no URL twice, and no step removes a
\* member from seen_urls.
C16_SeenCovers ==
    /\ []( /\ \A i \in DOMAIN urls_to_visit : urls_to_visit[i] \in seen_urls
           /\ DOMAIN scraped_pages \subseteq seen_urls
           /\ \A i, j \in DOMAIN urls_to_visit :
                 urls_to_visit[i] = urls_to_visit[j] => i = j )
    /\ [][ seen_urls \subseteq seen_urls' ]_vars

\* two URLs are waiting, a page is recorded, and a URL that was dequeued
\* and not recorded is still in seen_urls
C16_Witness ==
    /\ Len(urls_to_visit) >= 2
    /\ scraped_pages # << >>
    /\ \E u \in seen_urls :
          /\ u \notin DOMAIN scraped_pages
          /\ \A i \in DOMAIN urls_to_visit : urls_to_visit[i] # u

\* C17 as stated: every URL ever placed in urls_to_visit has the scheme of
\* the seed and the host of the seed.
C17_SameScheme ==
    \A i \in DOMAIN Enqs :
        /\ Scheme(Enqs[i].url) = base_scheme
        /\ Netloc(Enqs[i].url) = base_domain

\* C17: the first URL placed in urls_to_visit is the normalized seed, and
\* every URL placed there later has the host of the seed and the scheme
\* http or https, which need not be the scheme of the seed.
C17_HostAndWebScheme ==
    /\ Enqs[1].url = normalized_start_url
    /\ \A i \in DOMAIN Enqs :
          i > 1 =>
            /\ Netloc(Enqs[i].url) = base_domain
            /\ \/ Scheme(Enqs[i].url) = <<"h","t","t","p">>
               \/ Scheme(Enqs[i].url) = <<"h","t","t","p","s">>

\* session.get was called for an http URL of the seed's host in a crawl
\* that started from an https seed
C17_Witness ==
    /\ base_scheme = <<"h","t","t","p","s">>
    /\ \E i \in DOMAIN log :
          /\ log[i].op = "get"
          /\ Scheme(log[i].url) = <<"h","t","t","p">>
          /\ Netloc(log[i].url) = base_domain

\* C18: an iteration whose dequeued URL, lower-cased, ends with an excluded
\* suffix only removes that URL from urls_to_visit: session.get is not
\* called, no response is received, the iteration ends as an extension skip
\* whatever robots.txt says, and scraped_pages, seen_urls and the rest of
\* urls_to_visit stay as they were.
C18_ExcludedDropped ==
    [][ ( /\ log' # log
          /\ EndsWithAny(Lower(current_url), EXCLUDED_EXTENSIONS) )
        => /\ log' = Append(log, Event("pop", current_url,
                                       Cardinality(DOMAIN scraped_pages)))
           /\ outcome' = "SkippedExtension"
           /\ response' = NoResponse
           /\ scraped_pages' = scraped_pages
           /\ seen_urls' = seen_urls
           /\ urls_to_visit' = Tail(urls_to_visit)
      ]_vars

\* the link /d.PDF of a recorded page was dequeued and dropped while another
\* URL was waiting
C18_Witness ==
    /\ outcome = "SkippedExtension"
    /\ log[Len(log)].op = "pop"
    /\ EndsWith(log[Len(log)].url, <<".","P","D","F">>)
    /\ scraped_pages # << >>
    /\ urls_to_visit # << >>

\* the largest number of anchors on a page
MaxLinks ==
    CHOOSE n \in 0..16 :
        /\ \A b \in Bodies : Len(b.hrefs) <= n
        /\ \E b \in Bodies : Len(b.hrefs) = n

\* the steps left before the return: one to read robots.txt and one to
\* return
StepsLeft == IF pc = "robots" THEN 2 ELSE IF pc = "loop" THEN 1 ELSE 0

\* a bound on the number of steps a run can still take: every page still
\* within the budget may add MaxLinks URLs and takes one iteration, and
\* every waiting URL takes one iteration
Variant ==
    (max_pages - Cardinality(DOMAIN scraped_pages)) * (MaxLinks + 1)
        + Len(urls_to_visit) + StepsLeft

\* some step can be taken: robots.txt is still to be read, or the while
\* condition fails and the function returns, or one of the branches of the
\* loop body applies to the URL at the head of urls_to_visit (session.get
\* returns or raises within its timeout)
CanStep ==
    \/ pc = "robots"
    \/ pc = "loop" /\ ~LoopCondition(urls_to_visit, scraped_pages, max_pages)
    \/ Running /\ IsExcluded(current_url)
    \/ Running /\ ~IsExcluded(current_url) /\ ~CanFetch(robot_parser, current_url)
    \/ Fetching

\* C19: every run terminates: until the function has returned a step can
\* be taken, and every step lowers a bound that is never negative, so a run
\* has finitely many iterations (urls_to_visit grows only in an iteration
\* that records a page, and at most max_pages pages are recorded).
C19_Terminates ==
    /\ [](Variant >= 0)
    /\ [](pc # "done" => CanStep)
    /\ [][ Variant' < Variant ]_vars

\* a run with the largest budget returned with urls_to_visit empty, after
\* more iterations than max_pages
C19_Witness ==
    /\ pc = "done"
    /\ max_pages = MaxBudget
    /\ urls_to_visit = << >>
    /\ Len(Pops) > max_pages

\* the in-domain normalized link targets of the recorded page url
TargetsOfPage(url) ==
    Range(LinkTargets(url, BodyOf(scraped_pages[url]).hrefs)) \ { << >> }

\* C20: when the function has returned with fewer than max_pages pages,
\* urls_to_visit is empty, every member of seen_urls was dequeued exactly
\* once, and every in-domain normalized link target of every recorded page
\* is in seen_urls.
C20_ExhaustiveUnderBudget ==
    (pc = "done" /\ Cardinality(DOMAIN scraped_pages) < max_pages) =>
        /\ urls_to_visit = << >>
        /\ \A u \in seen_urls :
              Cardinality({ i \in DOMAIN Pops : Pops[i].url = u }) = 1
        /\ \A u \in DOMAIN scraped_pages : TargetsOfPage(u) \subseteq seen_urls

\* the recorded page url has no href on which urljoin raises
LinksAllResolved(url) ==
    \A i \in DOMAIN BodyOf(scraped_pages[url]).hrefs :
        ~RaisesValueError(UrlJoin(url, Strip(BodyOf(scraped_pages[url]).hrefs[i])))

\* what holds of C20: the same, with the link targets of the pages whose
\* link loop ran to its end
C20_ExceptLinkFailure ==
    (pc = "done" /\ Cardinality(DOMAIN scraped_pages) < max_pages) =>
        /\ urls_to_visit = << >>
        /\ \A u \in seen_urls :
              Cardinality({ i \in DOMAIN Pops : Pops[i].url = u }) = 1
        /\ \A u \in DOMAIN scraped_pages :
              LinksAllResolved(u) => TargetsOfPage(u) \subseteq seen_urls

----------------------------------------------------------------------------
(* The pure functions of the crawl, applied to bounded inputs *)

FnAlphabet == { "/", "a", ".", "j", "S", "?", "#" }

SeqsUpTo(n) == UNION { [ 1..k -> FnAlphabet ] : k \in 0..n }

FnPrefix == <<"h","t","t","p","s",":","/","/","x">>

\* URLs "https://x" followed by up to MaxLen characters
FnInputs == { FnPrefix \o t : t \in SeqsUpTo(MaxLen) }

InitFn ==
    /\ fn_in \in FnInputs
    /\ fn_out = [ op |-> "none" ]
    /\ pc = "fn"
    /\ start_url = fn_in
    /\ max_pages = 0
    /\ urls_to_visit = << >>
    /\ seen_urls = {}
    /\ scraped_pages = << >>
    /\ robot_parser = NewRobotParser
    /\ robots_result = "none"
    /\ outcome = "none"
    /\ response = NoResponse
    /\ log = << >>

\* line 34 applied to fn_in, to its result, to fn_in with a trailing slash
\* and to fn_in without and with a fragment
ApplyNormalizeSeed ==
    /\ pc = "fn"
    /\ fn_out.op = "none"
    /\ fn_out' = [ op     |-> "normalize_seed",
                   out    |-> NormalizeSeed(fn_in),
                   again  |-> NormalizeSeed(NormalizeSeed(fn_in)),
                   slash  |-> NormalizeSeed(fn_in \o <<"/">>),
                   nofrag |-> NormalizeSeed(SplitFirst(fn_in, "#")),
                   frag   |-> NormalizeSeed(SplitFirst(fn_in, "#") \o <<"#","f">>) ]
    /\ UNCHANGED << crawlVars, fn_in >>

\* lines 120 and 127 applied to the same strings
ApplyNormalizeLink ==
    /\ pc = "fn"
    /\ fn_out.op = "none"
    /\ fn_out' = [ op     |-> "normalize_link",
                   out    |-> NormalizeLink(fn_in),
                   again  |-> NormalizeLink(NormalizeLink(fn_in)),
                   slash  |-> NormalizeLink(fn_in \o <<"/">>),
                   nofrag |-> NormalizeLink(SplitFirst(fn_in, "#")),
                   frag   |-> NormalizeLink(SplitFirst(fn_in, "#") \o <<"#","f">>) ]
    /\ UNCHANGED << crawlVars, fn_in >>

\* line 67 applied to fn_in
ApplyFilter ==
    /\ pc = "fn"
    /\ fn_out.op = "none"
    /\ fn_out' = [ op |-> "filter", excluded |-> IsExcluded(fn_in) ]
    /\ UNCHANGED << crawlVars, fn_in >>

NextFn ==
    \/ ApplyNormalizeSeed
    \/ ApplyNormalizeLink
    \/ ApplyFilter

SpecFn == InitFn /\ [][NextFn]_vars

\* C9: normalization is idempotent, and two URLs that differ only by a
\* trailing slash or only by a fragment normalize to the same string.
C9_Normalization ==
    fn_out.op \in { "normalize_seed", "normalize_link" } =>
        /\ fn_out.again = fn_out.out
        /\ fn_out.slash = fn_out.out
        /\ fn_out.frag = fn_out.nofrag

\* what holds of C9: both normalizations are idempotent and ignore a
\* trailing slash, and the normalization of links ignores the fragment
C9_ExceptSeedFragment ==
    fn_out.op \in { "normalize_seed", "normalize_link" } =>
        /\ fn_out.again = fn_out.out
        /\ fn_out.slash = fn_out.out
        /\ fn_out.op = "normalize_link" => fn_out.frag = fn_out.nofrag

\* C10: a URL is excluded exactly when its lower-cased path ends with one
\* of the suffixes, whatever its host and its query string.
C10_PathDecides ==
    fn_out.op = "filter" =>
        (fn_out.excluded <=> EndsWithAny(Lower(Path(fn_in)), EXCLUDED_EXTENSIONS))

====
